---- MODULE Spec2Model ----
(***************************************************************************)
(* Asset-name validation, normalization and unique-name generation of      *)
(* spx-gui (src/spx-gui/src/models/common/asset-name.ts).                  *)
(*                                                                         *)
(* A JavaScript string is a sequence of UTF-16 code units; a character is  *)
(* its code unit (a natural number), so that the regular expressions, the  *)
(* case conversions and the number-to-string conversion are modelled by    *)
(* what they do to the characters.                                         *)
(***************************************************************************)
EXTENDS Integers, Sequences, FiniteSets, TLC

----------------------------------------------------------------------------
(* Characters and strings *)

IsUpper(c) == c \in 65..90            \* A-Z
IsLower(c) == c \in 97..122           \* a-z
IsDigit(c) == c \in 48..57            \* 0-9
IsLetter(c) == IsUpper(c) \/ IsLower(c)
IsCJK(c) == c \in 19968..40869        \* 一-龥
IsWordChar(c) == IsLetter(c) \/ IsDigit(c) \/ c = 95    \* [a-zA-Z0-9_]

\* String.prototype.toLowerCase / toUpperCase on one code unit (the
\* normalizer only ever applies them to ASCII)
CharToLower(c) == IF IsUpper(c) THEN c + 32 ELSE c
CharToUpper(c) == IF IsLower(c) THEN c - 32 ELSE c

toLowerCase(s) == [j \in 1..Len(s) |-> CharToLower(s[j])]

slice(s, from, to) == SubSeq(s, from + 1, IF to < Len(s) THEN to ELSE Len(s))

\* Number.prototype.toString(): the decimal digits of a positive integer
RECURSIVE NumberToString(_)
NumberToString(n) ==
  IF n < 10 THEN << 48 + n >>
  ELSE NumberToString(n \div 10) \o << 48 + (n % 10) >>

Repeat(c, n) == [j \in 1..n |-> c]

----------------------------------------------------------------------------
(* Reserved words of '@/utils/spx' *)

\* "if", "go", "func", "for"
keywords == { <<105, 102>>, <<103, 111>>, <<102, 117, 110, 99>>, <<102, 111, 114>> }
\* "int", "bool"
typeKeywords == { <<105, 110, 116>>, <<98, 111, 111, 108>> }

----------------------------------------------------------------------------
(* Validators *)

MaxNameLen == 100
MaxNormalizedLen == 20
MaxAttempts == 10000

Undefined == [tag |-> "undefined"]
Err(msg) == [tag |-> "error", en |-> msg]
ErrExists(what, name) ==
  [tag |-> "error", en |-> what \o " with name ${name} already exists", name |-> name]

\* /^[一-龥a-zA-Z_][一-龥a-zA-Z0-9_]*$/.test(name)
regexTest(name) ==
  /\ Len(name) >= 1
  /\ IsCJK(name[1]) \/ IsLetter(name[1]) \/ name[1] = 95
  /\ \A j \in 2..Len(name) : IsCJK(name[j]) \/ IsWordChar(name[j])

\* validateAssetName testing the grammar before the length
validateAssetName_grammarBeforeLength(name) ==
  IF name = <<>> THEN Err("The name must not be blank")
  ELSE IF ~regexTest(name) THEN Err("Invalid name")
  ELSE IF Len(name) > MaxNameLen
    THEN Err("The name is too long (maximum is 100 characters)")
  ELSE IF name \in typeKeywords THEN Err("Conflict with keywords")
  ELSE IF name \in keywords THEN Err("Conflict with keywords")
  ELSE Undefined

validateAssetName(name) ==
  IF name = <<>> THEN Err("The name must not be blank")
  ELSE IF Len(name) > MaxNameLen
    THEN Err("The name is too long (maximum is 100 characters)")
  ELSE IF ~regexTest(name) THEN Err("Invalid name")
  ELSE IF name \in typeKeywords THEN Err("Conflict with keywords")
  ELSE IF name \in keywords THEN Err("Conflict with keywords")
  ELSE Undefined

\* Array.prototype.find((s) => s.name === name) is truthy
find(names, name) == \E j \in 1..Len(names) : names[j] = name

----------------------------------------------------------------------------
(* Normalizer *)

\* the characters of s that are not dropped (Dropped marks a removed position)
Dropped == 0 - 1
Kept(s) == SelectSeq(s, LAMBDA c : c # Dropped)

\* .replace(/[^a-zA-Z0-9_]+/g, '_'): every maximal run of other characters
\* becomes one '_'
replaceNonWord(s) ==
  Kept([j \in 1..Len(s) |->
          IF IsWordChar(s[j]) THEN s[j]
          ELSE IF j = 1 \/ IsWordChar(s[j - 1]) THEN 95
          ELSE Dropped])

\* .replace(/([A-Z])/g, '_$1'): a '_' before every upper-case letter
markUpper(s) ==
  Kept([j \in 1..(2 * Len(s)) |->
          IF j % 2 = 0 THEN s[j \div 2]
          ELSE IF IsUpper(s[(j + 1) \div 2]) THEN 95
          ELSE Dropped])

\* .replace(/^[^a-zA-Z]+/, ''): drop the characters before the first letter
stripStart(s) ==
  IF \E j \in 1..Len(s) : IsLetter(s[j])
    THEN LET f == CHOOSE j \in 1..Len(s) :
                    IsLetter(s[j]) /\ \A k \in 1..(j - 1) : ~IsLetter(s[k])
         IN SubSeq(s, f, Len(s))
    ELSE <<>>

\* .split('_').filter((p) => !!p): the maximal runs of characters other than '_'
splitParts(s) ==
  LET starts == SelectSeq([j \in 1..Len(s) |-> j],
                          LAMBDA j : s[j] # 95 /\ (j = 1 \/ s[j - 1] = 95))
      EndOf(st) == CHOOSE e \in st..Len(s) :
                     /\ \A k \in st..e : s[k] # 95
                     /\ e = Len(s) \/ s[e + 1] = 95
  IN [k \in 1..Len(starts) |-> SubSeq(s, starts[k], EndOf(starts[k]))]

upFirst(str) == <<CharToUpper(str[1])>> \o slice(str, 1, Len(str))

RECURSIVE join(_)
join(parts) == IF parts = <<>> THEN <<>> ELSE Head(parts) \o join(Tail(parts))

\* normalizeAssetName without the final slice(0, 20)
normalizeAssetName_notTruncated(src, cas) ==
  LET src1 == stripStart(toLowerCase(markUpper(replaceNonWord(src))))
      parts == splitParts(src1)
  IN IF Len(parts) = 0 THEN <<>>
     ELSE join(<<IF cas = "pascal" THEN upFirst(Head(parts)) ELSE Head(parts)>>
               \o [j \in 1..(Len(parts) - 1) |-> upFirst(parts[j + 1])])

normalizeAssetName(src, cas) ==
  LET src1 == stripStart(toLowerCase(markUpper(replaceNonWord(src))))
      parts == splitParts(src1)
  IN IF Len(parts) = 0 THEN <<>>
     ELSE LET firstpart == Head(parts)
              otherParts == Tail(parts)
              result == join(<<IF cas = "pascal" THEN upFirst(firstpart) ELSE firstpart>>
                             \o [j \in 1..Len(otherParts) |-> upFirst(otherParts[j])])
          IN slice(result, 0, MaxNormalizedLen)

----------------------------------------------------------------------------
(* Scoped validators.  A scope is Null or the object holding the children;  *)
(* only the children's names are read.                                     *)

Null == [null |-> TRUE]

\* validateSpriteName looking at the sprites only
validateSpriteName_spritesOnly(name, project) ==
  LET err == validateAssetName(name)
  IN IF err # Undefined THEN err
     ELSE IF project # Null /\ find(project.sprites, name) THEN ErrExists("Sprite", name)
     ELSE Undefined

validateSpriteName(name, project) ==
  LET err == validateAssetName(name)
  IN IF err # Undefined THEN err
     ELSE IF project # Null /\ find(project.sprites, name) THEN ErrExists("Sprite", name)
     ELSE IF project # Null /\ find(project.sounds, name) THEN ErrExists("Sound", name)
     ELSE Undefined

validateCostumeName(name, sprite) ==
  LET err == validateAssetName(name)
  IN IF err # Undefined THEN err
     ELSE IF sprite # Null /\ find(sprite.costumes, name) THEN ErrExists("Costume", name)
     ELSE Undefined

\* validateSoundName with a namespace of its own: only the sounds collide
validateSoundName_soundsOnly(name, project) ==
  LET err == validateAssetName(name)
  IN IF err # Undefined THEN err
     ELSE IF project # Null /\ find(project.sounds, name) THEN ErrExists("Sound", name)
     ELSE Undefined

validateSoundName(name, project) == validateSpriteName(name, project)

validateBackdropName(name, stage) ==
  LET err == validateAssetName(name)
  IN IF err # Undefined THEN err
     ELSE IF stage # Null /\ find(stage.backdrops, name) THEN ErrExists("Backdrop", name)
     ELSE Undefined

----------------------------------------------------------------------------
(* State *)

VARIABLES
  project,   \* [sprites, sounds]: the names of project.sprites and project.sounds
  sprite,    \* [costumes]: the names of sprite.costumes
  stage,     \* [backdrops]: the names of stage.backdrops
  pc,        \* "idle": no call; "done": the call returned or threw
  call,      \* the exported function called and its arguments
  isValid,   \* the closure passed to getValidName
  base,      \* getValidName's base
  i,         \* getValidName's loop counter when it left the loop
  calls,     \* number of evaluations of isValid in this call
  ret,       \* the value returned, or the error thrown
  first      \* result of the previous application when the call re-applies ensureValidXName

scopeVars == <<project, sprite, stage>>
callVars == <<pc, call, isValid, base, i, calls, ret, first>>
vars == <<project, sprite, stage, pc, call, isValid, base, i, calls, ret, first>>

None == [tag |-> "none"]
NoCall == [op |-> "none"]
Name(n) == [tag |-> "name", val |-> n]
Thrown == [tag |-> "throw", message |-> "unexpected infinite loop with base ${base}"]

\* the scope argument of a call: the object, or null
ScopeOf(fn, scoped) ==
  IF ~scoped THEN Null
  ELSE IF fn \in {"validateSpriteName", "validateSoundName"} THEN project
  ELSE IF fn = "validateCostumeName" THEN sprite
  ELSE stage

\* (n) => validateXName(n, scope) == null, and the predicates a caller of
\* getValidName may pass
ApplyIsValid(f, name) ==
  CASE f.fn = "validateSpriteName" -> validateSpriteName(name, ScopeOf(f.fn, f.scoped)) = Undefined
    [] f.fn = "validateCostumeName" -> validateCostumeName(name, ScopeOf(f.fn, f.scoped)) = Undefined
    [] f.fn = "validateSoundName" -> validateSoundName(name, ScopeOf(f.fn, f.scoped)) = Undefined
    [] f.fn = "validateBackdropName" -> validateBackdropName(name, ScopeOf(f.fn, f.scoped)) = Undefined
    [] f.fn = "never" -> FALSE
    [] f.fn = "always" -> TRUE
    [] f.fn = "only" -> name = f.name

Idle ==
  /\ pc' = "idle" /\ call' = NoCall /\ isValid' = None /\ base' = <<>>
  /\ i' = 0 /\ calls' = 0 /\ ret' = None /\ first' = None

Returns(c, value) ==
  /\ pc' = "done" /\ call' = c /\ ret' = value
  /\ isValid' = None /\ base' = <<>> /\ i' = 0 /\ calls' = 0

----------------------------------------------------------------------------
(* Operations *)

CallValidate(fn, name, scoped) ==
  /\ pc = "idle"
  /\ Returns([op |-> fn, arg |-> name, scoped |-> scoped],
             CASE fn = "validateSpriteName" -> validateSpriteName(name, ScopeOf(fn, scoped))
               [] fn = "validateCostumeName" -> validateCostumeName(name, ScopeOf(fn, scoped))
               [] fn = "validateSoundName" -> validateSoundName(name, ScopeOf(fn, scoped))
               [] fn = "validateBackdropName" -> validateBackdropName(name, ScopeOf(fn, scoped)))
  /\ first' = None
  /\ UNCHANGED scopeVars

CallNormalizeAssetName(src, cas) ==
  /\ pc = "idle"
  /\ Returns([op |-> "normalizeAssetName", arg |-> src, cas |-> cas],
             Name(normalizeAssetName(src, cas)))
  /\ first' = None
  /\ UNCHANGED scopeVars

\* the candidate with the counter appended in the first iteration too
Candidate_suffixFromOne(b, k) == b \o NumberToString(k)

\* the candidate of iteration k: i === 1 ? base : base + i
Candidate(b, k) == IF k = 1 THEN b ELSE b \o NumberToString(k)

\* getValidName returning the candidate that follows the one it tested
getValidName_returnsNextCandidate(b, f) ==
  LET last == MaxAttempts + 1
      valid(k) == ApplyIsValid(f, Candidate(b, k))
  IN IF \E k \in 1..last : valid(k)
       THEN LET k == CHOOSE k \in 1..last : valid(k) /\ \A j \in 1..(k - 1) : ~valid(j)
            IN [ret |-> Name(Candidate(b, k + 1)), i |-> k, calls |-> k]
       ELSE [ret |-> Thrown, i |-> last, calls |-> last]

\* getValidName with the comparison of the limit reversed (i < 10000): it
\* throws as soon as the first candidate is not valid
getValidName_limitReversed(b, f) ==
  IF ApplyIsValid(f, Candidate(b, 1))
    THEN [ret |-> Name(Candidate(b, 1)), i |-> 1, calls |-> 1]
    ELSE [ret |-> Thrown, i |-> 1, calls |-> 1]

\* getValidName(base, isValid): the loop tests the candidates of i = 1, 2, ...
\* and returns the first valid one; a candidate that is not valid ends the
\* loop by a throw once i > 10000, that is in iteration 10001.  The result
\* is the value returned or thrown, the final i, and the number of
\* evaluations of isValid.
getValidName(b, f) ==
  LET last == MaxAttempts + 1
      valid(k) == ApplyIsValid(f, Candidate(b, k))
  IN IF \E k \in 1..last : valid(k)
       THEN LET k == CHOOSE k \in 1..last : valid(k) /\ \A j \in 1..(k - 1) : ~valid(j)
            IN [ret |-> Name(Candidate(b, k)), i |-> k, calls |-> k]
       ELSE [ret |-> Thrown, i |-> last, calls |-> last]

\* return getValidName(b, f), in the call c
Resolves(c, b, f) ==
  LET r == getValidName(b, f)
  IN /\ pc' = "done" /\ call' = c /\ ret' = r.ret
     /\ isValid' = f /\ base' = b /\ i' = r.i /\ calls' = r.calls

\* base = normalizeAssetName(base, cas) || dflt
BaseOrDefault(b, cas, dflt) ==
  LET n == normalizeAssetName(b, cas) IN IF n = <<>> THEN dflt ELSE n

Sprite == <<83, 112, 114, 105, 116, 101>>                \* "Sprite"
costume == <<99, 111, 115, 116, 117, 109, 101>>          \* "costume"
sound == <<115, 111, 117, 110, 100>>                     \* "sound"
backdrop == <<98, 97, 99, 107, 100, 114, 111, 112>>      \* "backdrop"

getSpriteName(c, b) ==
  Resolves(c, BaseOrDefault(b, "pascal", Sprite),
             [fn |-> "validateSpriteName", scoped |-> c.scoped])

getCostumeName(c, b) ==
  Resolves(c, BaseOrDefault(b, "camel", costume),
             [fn |-> "validateCostumeName", scoped |-> c.scoped])

getSoundName(c, b) ==
  Resolves(c, BaseOrDefault(b, "camel", sound),
             [fn |-> "validateSoundName", scoped |-> c.scoped])

getBackdropName(c, b) ==
  Resolves(c, BaseOrDefault(b, "camel", backdrop),
             [fn |-> "validateBackdropName", scoped |-> c.scoped])

\* ensureValidSpriteName without the early return of a valid name
ensureValidSpriteName_alwaysGenerates(c, name) == getSpriteName(c, name)

ensureValidSpriteName(c, name) ==
  IF validateSpriteName(name, ScopeOf("validateSpriteName", c.scoped)) = Undefined
    THEN Returns(c, Name(name))
    ELSE getSpriteName(c, name)

ensureValidCostumeName(c, name) ==
  IF validateCostumeName(name, ScopeOf("validateCostumeName", c.scoped)) = Undefined
    THEN Returns(c, Name(name))
    ELSE getCostumeName(c, name)

ensureValidSoundName(c, name) ==
  IF validateSoundName(name, ScopeOf("validateSoundName", c.scoped)) = Undefined
    THEN Returns(c, Name(name))
    ELSE getSoundName(c, name)

ensureValidBackdropName(c, name) ==
  IF validateBackdropName(name, ScopeOf("validateBackdropName", c.scoped)) = Undefined
    THEN Returns(c, Name(name))
    ELSE getBackdropName(c, name)

CallGetSpriteName(b, scoped) ==
  /\ pc = "idle"
  /\ getSpriteName([op |-> "getSpriteName", arg |-> b, scoped |-> scoped], b)
  /\ first' = None
  /\ UNCHANGED scopeVars

CallGetCostumeName(b, scoped) ==
  /\ pc = "idle"
  /\ getCostumeName([op |-> "getCostumeName", arg |-> b, scoped |-> scoped], b)
  /\ first' = None
  /\ UNCHANGED scopeVars

CallGetSoundName(b, scoped) ==
  /\ pc = "idle"
  /\ getSoundName([op |-> "getSoundName", arg |-> b, scoped |-> scoped], b)
  /\ first' = None
  /\ UNCHANGED scopeVars

CallGetBackdropName(b, scoped) ==
  /\ pc = "idle"
  /\ getBackdropName([op |-> "getBackdropName", arg |-> b, scoped |-> scoped], b)
  /\ first' = None
  /\ UNCHANGED scopeVars

Ensure(fn, c, name) ==
  CASE fn = "ensureValidSpriteName" -> ensureValidSpriteName(c, name)
    [] fn = "ensureValidCostumeName" -> ensureValidCostumeName(c, name)
    [] fn = "ensureValidSoundName" -> ensureValidSoundName(c, name)
    [] fn = "ensureValidBackdropName" -> ensureValidBackdropName(c, name)

CallEnsureValidName(fn, name, scoped) ==
  /\ pc = "idle"
  /\ Ensure(fn, [op |-> fn, arg |-> name, scoped |-> scoped], name)
  /\ first' = None
  /\ UNCHANGED scopeVars

\* the caller passes the name an ensureValidXName call returned to the same
\* function again, with the same scope
Reapply ==
  /\ pc = "done"
  /\ call.op \in {"ensureValidSpriteName", "ensureValidCostumeName",
                  "ensureValidSoundName", "ensureValidBackdropName"}
  /\ ret.tag = "name"
  /\ first = None
  /\ Ensure(call.op, [op |-> call.op, arg |-> ret.val, scoped |-> call.scoped], ret.val)
  /\ first' = ret
  /\ UNCHANGED scopeVars

\* the caller drops the result
Return ==
  /\ pc = "done"
  /\ Idle
  /\ UNCHANGED scopeVars

\* a caller inside the module invokes getValidName(b, f)
CallGetValidName(b, f) ==
  /\ pc = "idle"
  /\ Resolves([op |-> "getValidName", arg |-> b], b, f)
  /\ first' = None
  /\ UNCHANGED scopeVars

MaxChildren == 3

\* the caller adds an asset to the scope under the name a generator returned
AddAsset ==
  /\ pc = "done"
  /\ call.op \in {"getSpriteName", "getCostumeName", "getSoundName", "getBackdropName",
                  "ensureValidSpriteName", "ensureValidCostumeName",
                  "ensureValidSoundName", "ensureValidBackdropName"}
  /\ call.scoped
  /\ ret.tag = "name"
  /\ CASE call.op \in {"getSpriteName", "ensureValidSpriteName"} ->
            /\ Len(project.sprites) < MaxChildren
            /\ project' = [project EXCEPT !.sprites = Append(@, ret.val)]
            /\ UNCHANGED <<sprite, stage>>
       [] call.op \in {"getSoundName", "ensureValidSoundName"} ->
            /\ Len(project.sounds) < MaxChildren
            /\ project' = [project EXCEPT !.sounds = Append(@, ret.val)]
            /\ UNCHANGED <<sprite, stage>>
       [] call.op \in {"getCostumeName", "ensureValidCostumeName"} ->
            /\ Len(sprite.costumes) < MaxChildren
            /\ sprite' = [sprite EXCEPT !.costumes = Append(@, ret.val)]
            /\ UNCHANGED <<project, stage>>
       [] call.op \in {"getBackdropName", "ensureValidBackdropName"} ->
            /\ Len(stage.backdrops) < MaxChildren
            /\ stage' = [stage EXCEPT !.backdrops = Append(@, ret.val)]
            /\ UNCHANGED <<project, sprite>>
  /\ Idle

----------------------------------------------------------------------------
(* Inputs *)

MaxLen == 3

\* g o G 1 _ -
Alphabet == {103, 111, 71, 49, 95, 45}

StringsUpTo(n) == UNION { [1..k -> Alphabet] : k \in 0..n }

Foo == <<70, 111, 111>>                                   \* "Foo"
Foo2 == <<70, 111, 111, 50>>                              \* "Foo2"
Kw_if == <<105, 102>>                                     \* "if"
Kw_go == <<103, 111>>                                     \* "go"
Kw_int == <<105, 110, 116>>                               \* "int"
HelloWorld == <<72, 101, 108, 108, 111, 32, 87, 111, 114, 108, 100, 33>>  \* "Hello World!"
Zhong == <<20013, 25991, 49>>                             \* "中文1"
LongWord == Repeat(97, MaxNameLen + 1)                    \* "aaa...a", 101 characters
LongDashes == Repeat(45, MaxNameLen + 1)                  \* "---...-", 101 characters
FullWord == Repeat(97, MaxNameLen)                        \* "aaa...a", 100 characters
Pascal20 == <<71>> \o Repeat(111, MaxNormalizedLen - 1)   \* "Gooo...o", 20 characters
Camel20 == Repeat(111, MaxNormalizedLen)                  \* "oooo...o", 20 characters
Pascal21 == <<71>> \o Repeat(111, MaxNormalizedLen)       \* "Gooo...o", 21 characters

SpecialNames ==
  { Foo, Foo2, Kw_if, Kw_int, HelloWorld, Zhong, LongWord, LongDashes, FullWord,
    Pascal20, Camel20, Pascal21, Sprite, costume, sound, backdrop }

Names == StringsUpTo(MaxLen) \cup SpecialNames

Validators == {"validateSpriteName", "validateCostumeName",
               "validateSoundName", "validateBackdropName"}
Ensurers == {"ensureValidSpriteName", "ensureValidCostumeName",
             "ensureValidSoundName", "ensureValidBackdropName"}
Getters == {"getSpriteName", "getCostumeName", "getSoundName", "getBackdropName"}

\* The scopes a caller may hold: any names, repeated or not
Scopes ==
  { [project |-> [sprites |-> <<>>, sounds |-> <<>>],
     sprite |-> [costumes |-> <<>>],
     stage |-> [backdrops |-> <<>>]],
    [project |-> [sprites |-> <<Foo, <<71>>, <<71, 111>>, <<111>>>>,
                  sounds |-> <<<<71, 50>>, <<103, 111, 50>>, Foo, <<111>>, <<111, 50>>>>],
     sprite |-> [costumes |-> <<<<103>>, <<103, 51>>, Kw_go, costume>>],
     stage |-> [backdrops |-> <<<<111>>, <<111, 50>>, <<111, 51>>, backdrop, <<111>>>>]],
    [project |-> [sprites |-> <<LongWord, Kw_if, Pascal20, Sprite>>,
                  sounds |-> <<Camel20, Kw_int, Kw_go, sound, Zhong>>],
     sprite |-> [costumes |-> <<LongWord, Camel20, Kw_go, Camel20 \o <<50>>>>],
     stage |-> [backdrops |-> <<Kw_go, Camel20, LongWord, <<95>>>>]] }

Init ==
  /\ \E s \in Scopes : project = s.project /\ sprite = s.sprite /\ stage = s.stage
  /\ pc = "idle" /\ call = NoCall /\ isValid = None /\ base = <<>>
  /\ i = 0 /\ calls = 0 /\ ret = None /\ first = None

\* a caller invokes one exported function on names drawn from `names`
API(names) ==
  /\ pc = "idle"
  /\ \/ \E fn \in Validators, n \in names, scoped \in BOOLEAN : CallValidate(fn, n, scoped)
     \/ \E n \in names, cas \in {"camel", "pascal"} : CallNormalizeAssetName(n, cas)
     \/ \E n \in names, scoped \in BOOLEAN : CallGetSpriteName(n, scoped)
     \/ \E n \in names, scoped \in BOOLEAN : CallGetCostumeName(n, scoped)
     \/ \E n \in names, scoped \in BOOLEAN : CallGetSoundName(n, scoped)
     \/ \E n \in names, scoped \in BOOLEAN : CallGetBackdropName(n, scoped)
     \/ \E fn \in Ensurers, n \in names, scoped \in BOOLEAN : CallEnsureValidName(fn, n, scoped)

Next ==
  \/ API(Names)
  \/ Reapply
  \/ Return

Spec == Init /\ [][Next]_vars

----------------------------------------------------------------------------
(* The rules of the specification, stated apart from the validators' code *)

Range(seq) == { seq[j] : j \in 1..Len(seq) }

KindOf(fn) ==
  CASE fn \in {"validateSpriteName", "getSpriteName", "ensureValidSpriteName"} -> "sprite"
    [] fn \in {"validateCostumeName", "getCostumeName", "ensureValidCostumeName"} -> "costume"
    [] fn \in {"validateSoundName", "getSoundName", "ensureValidSoundName"} -> "sound"
    [] fn \in {"validateBackdropName", "getBackdropName", "ensureValidBackdropName"} -> "backdrop"

\* the names a new name of this kind must differ from
Siblings(kind, scoped) ==
  IF ~scoped THEN {}
  ELSE CASE kind \in {"sprite", "sound"} -> Range(project.sprites) \cup Range(project.sounds)
         [] kind = "costume" -> Range(sprite.costumes)
         [] kind = "backdrop" -> Range(stage.backdrops)

Reserved == typeKeywords \cup keywords

FirstViolatedRule(n, kind, scoped) ==
  IF n = <<>> THEN "blank"
  ELSE IF Len(n) > 100 THEN "too long"
  ELSE IF ~regexTest(n) THEN "grammar"
  ELSE IF n \in Reserved THEN "reserved word"
  ELSE IF n \in Siblings(kind, scoped) THEN "collision"
  ELSE "none"

Accepted(n, kind, scoped) == FirstViolatedRule(n, kind, scoped) = "none"

IsExistsError(r) == r.tag = "error" /\ "name" \in DOMAIN r

RuleOfResult(r) ==
  IF r = Undefined THEN "none"
  ELSE IF IsExistsError(r) THEN "collision"
  ELSE CASE r.en = "The name must not be blank" -> "blank"
         [] r.en = "The name is too long (maximum is 100 characters)" -> "too long"
         [] r.en = "Invalid name" -> "grammar"
         [] r.en = "Conflict with keywords" -> "reserved word"

Returned(fns) == pc = "done" /\ call.op \in fns /\ ret.tag = "name"

\* C1: every scoped validator returns the error of the first violated rule in
\* the order blank, too long, grammar, reserved word, collision, and no error
\* only when no rule is violated
C1_FirstViolatedRule ==
  (pc = "done" /\ call.op \in Validators) =>
    RuleOfResult(ret) = FirstViolatedRule(call.arg, KindOf(call.op), call.scoped)

\* a reserved word that is also the name of a costume of the sprite is
\* reported as a conflict with keywords
C1_Witness ==
  /\ pc = "done" /\ call.op = "validateCostumeName" /\ call.scoped
  /\ call.arg = Kw_go /\ call.arg \in Range(sprite.costumes)
  /\ ret = Err("Conflict with keywords")

\* C2: a generator that returns, returns a name its validator accepts: the
\* normalized base (or the kind's default) if that is accepted, otherwise the
\* base followed by the smallest k >= 2 that makes an accepted name
C2_Base(fn, b) ==
  LET n == normalizeAssetName(b, IF fn = "getSpriteName" THEN "pascal" ELSE "camel")
  IN IF n # <<>> THEN n
     ELSE CASE fn = "getSpriteName" -> Sprite
            [] fn = "getCostumeName" -> costume
            [] fn = "getSoundName" -> sound
            [] fn = "getBackdropName" -> backdrop

C2_SmallestAcceptedCandidate ==
  Returned(Getters) =>
    LET b == C2_Base(call.op, call.arg)
        acc(n) == Accepted(n, KindOf(call.op), call.scoped)
    IN /\ acc(ret.val)
       /\ IF acc(b) THEN ret.val = b
          ELSE \E k \in 2..i :
                 /\ ret.val = b \o NumberToString(k)
                 /\ \A j \in 2..(k - 1) : ~acc(b \o NumberToString(j))

\* the project has a sprite "Foo" and no "Foo2": getSpriteName(project, "Foo") = "Foo2"
C2_Witness ==
  /\ Returned({"getSpriteName"}) /\ call.scoped /\ call.arg = Foo
  /\ Foo \in Range(project.sprites) /\ Foo2 \notin Siblings("sprite", TRUE)
  /\ ret.val = Foo2

\* C3 as stated: for every name matching the grammar and not reserved, the
\* sprite and sound validators report "already exists" exactly when a sprite
\* or a sound of the project has the name
C3_AsStated ==
  (pc = "done" /\ call.op \in {"validateSpriteName", "validateSoundName"}
     /\ call.scoped /\ regexTest(call.arg) /\ call.arg \notin Reserved) =>
    (IsExistsError(ret) <=> call.arg \in Range(project.sprites) \cup Range(project.sounds))

\* C3, amended: for every name of at most 100 characters matching the grammar
\* and not reserved, the sprite and sound validators report "already exists"
\* exactly when a sprite or a sound of the project has the name; and
\* validateSoundName returns what validateSpriteName returns
C3_SharedNamespace ==
  (pc = "done" /\ call.op \in {"validateSpriteName", "validateSoundName"}) =>
    /\ (call.scoped /\ Len(call.arg) <= 100 /\ regexTest(call.arg) /\ call.arg \notin Reserved) =>
         (IsExistsError(ret) <=> call.arg \in Range(project.sprites) \cup Range(project.sounds))
    /\ call.op = "validateSoundName" =>
         ret = validateSpriteName(call.arg, IF call.scoped THEN project ELSE Null)

\* a sound name is refused because a sprite has it
C3_Witness ==
  /\ pc = "done" /\ call.op = "validateSoundName" /\ call.scoped
  /\ call.arg \in Range(project.sprites) /\ call.arg \notin Range(project.sounds)
  /\ IsExistsError(ret)

\* C4: applying ensureValidXName to its own result, with the scope unchanged,
\* returns that result again
C4_Idempotent ==
  first # None => (pc = "done" /\ ret = first)

\* the first application had to generate a name
C4_Witness ==
  /\ pc = "done" /\ first # None /\ call.op = "ensureValidCostumeName" /\ call.scoped
  /\ ret = Name(<<103, 50>>) /\ <<103>> \in Range(sprite.costumes)

\* C5: ensureValidXName returns a name its validator accepts as it is
C5_RoundTrip ==
  (pc = "done" /\ call.op \in Ensurers /\ first = None
     /\ Accepted(call.arg, KindOf(call.op), call.scoped)) =>
    ret = Name(call.arg)

\* an accepted sprite name that normalization would change is returned unchanged
C5_Witness ==
  /\ pc = "done" /\ call.op = "ensureValidSpriteName" /\ call.scoped
  /\ call.arg = FullWord /\ ret = Name(FullWord)

\* C7: normalizeAssetName returns the empty string or a name validateAssetName
\* accepts
C7_NormalizedIsValid ==
  (pc = "done" /\ call.op = "normalizeAssetName") =>
    (ret.val = <<>> \/ FirstViolatedRule(ret.val, "sprite", FALSE) = "none")

\* C8 as stated: a generator returns a name of at most 20 characters
C8_AsStated ==
  Returned(Getters) => Len(ret.val) <= 20

\* C8, amended: the base a generator resolves has at most 20 characters, and
\* the name it returns is that base, or that base followed by the decimal
\* digits of a suffix of at most 10001: at most 25 characters
C8_BaseAtMost20 ==
  /\ (pc = "done" /\ call.op \in Getters) => Len(base) <= 20
  /\ Returned(Getters) =>
       /\ Len(ret.val) <= 25
       /\ Len(ret.val) > 20 => (ret.val # base /\ SubSeq(ret.val, 1, Len(base)) = base)

\* a 20-character base that is taken gets a suffix: 21 characters
C8_Witness ==
  /\ Returned({"getSpriteName"}) /\ call.scoped
  /\ call.arg = Pascal21 /\ ret.val = Pascal20 \o <<50>>

----------------------------------------------------------------------------
(* The resolver called with any predicate *)

ResolverBases ==
  StringsUpTo(1) \cup { Foo, Kw_go, Sprite, costume, sound, backdrop, HelloWorld, Zhong }

\* predicates a caller may pass: none valid, all valid, one name valid
ResolverPredicates(b) ==
  { [fn |-> "never"], [fn |-> "always"] } \cup
  { [fn |-> "only", name |-> b \o NumberToString(k)] :
      k \in {2, 3, 4, 5, MaxAttempts, MaxAttempts + 1} }

InitResolver ==
  /\ project = [sprites |-> <<>>, sounds |-> <<>>]
  /\ sprite = [costumes |-> <<>>]
  /\ stage = [backdrops |-> <<>>]
  /\ pc = "idle" /\ call = NoCall /\ isValid = None /\ base = <<>>
  /\ i = 0 /\ calls = 0 /\ ret = None /\ first = None

NextResolver ==
  \/ \E b \in ResolverBases : \E f \in ResolverPredicates(b) : CallGetValidName(b, f)
  \/ Return

SpecResolver == InitResolver /\ [][NextResolver]_vars

\* C6: getValidName evaluates isValid on at most 10,000 candidates (base,
\* base2, ..., base10000) and throws if none of them is valid
C6_AtMost10000Attempts ==
  call.op = "getValidName" =>
    /\ calls <= 10000
    /\ (pc = "done" /\ \A k \in 1..10000 :
           ~ApplyIsValid(isValid, IF k = 1 THEN base ELSE base \o NumberToString(k)))
         => ret = Thrown

----------------------------------------------------------------------------
(* A project that already has the sprites G, G2, ..., G10001 *)

CrowdedProject ==
  [sprites |-> SubSeq([k \in 1..(MaxAttempts + 1) |->
                         IF k = 1 THEN <<71>> ELSE <<71>> \o NumberToString(k)],
                      1, MaxAttempts + 1),
   sounds |-> <<sound>>]

InitCrowded ==
  /\ project = CrowdedProject
  /\ sprite = [costumes |-> <<Kw_go, <<103>>>>]
  /\ stage = [backdrops |-> <<backdrop>>]
  /\ pc = "idle" /\ call = NoCall /\ isValid = None /\ base = <<>>
  /\ i = 0 /\ calls = 0 /\ ret = None /\ first = None

\* the names the caller of the crowded project passes
CrowdedNames == StringsUpTo(1) \cup { Kw_go, <<45, 103>>, Sprite, sound }

NextCrowded ==
  \/ /\ pc = "idle"
     /\ \/ \E scoped \in BOOLEAN : CallGetSpriteName(<<103>>, scoped)
        \/ \E n \in CrowdedNames, scoped \in BOOLEAN : CallGetCostumeName(n, scoped)
        \/ \E n \in CrowdedNames, scoped \in BOOLEAN : CallGetSoundName(n, scoped)
        \/ \E n \in CrowdedNames, scoped \in BOOLEAN : CallGetBackdropName(n, scoped)
        \/ \E fn \in Ensurers \ {"ensureValidSpriteName"}, n \in CrowdedNames, scoped \in BOOLEAN :
             CallEnsureValidName(fn, n, scoped)
  \/ Reapply
  \/ Return

SpecCrowded == InitCrowded /\ [][NextCrowded]_vars

Generators == Getters \cup Ensurers

\* C9 as stated: whatever the scope, the generators never throw
C9_AsStated ==
  call.op \in Generators => ret # Thrown

\* C9, amended: a generator throws only when each of the 10,001 candidates
\* base, base2, ..., base10001 is a reserved word or the name of a child of
\* the scope; so never when the scope has fewer children (none if it is
\* null) than 10,001 less the number of reserved words
C9_ThrowsOnlyWhenExhausted ==
  (call.op \in Generators /\ ret = Thrown) =>
    /\ call.scoped
    /\ \A k \in 1..10001 :
         (IF k = 1 THEN base ELSE base \o NumberToString(k))
           \in Reserved \cup Siblings(KindOf(call.op), TRUE)
    /\ Cardinality(Siblings(KindOf(call.op), TRUE)) >= 10001 - Cardinality(Reserved)

\* getSpriteName throws on the crowded project
C9_Witness ==
  /\ pc = "done" /\ call.op = "getSpriteName" /\ call.scoped
  /\ ret = Thrown /\ calls = 10001

----------------------------------------------------------------------------
(* A caller that adds assets under generated names *)

\* "g", "-"
AddedNames == { <<103>>, <<45>> }

\* scopes whose names are pairwise distinct
DistinctScopes ==
  { [project |-> [sprites |-> <<Foo, Kw_go>>, sounds |-> <<<<103>>, <<71>>>>],
     sprite |-> [costumes |-> <<<<103>>, costume>>],
     stage |-> [backdrops |-> <<LongDashes, backdrop>>]],
    [project |-> [sprites |-> <<Sprite, Sprite \o <<50>>>>, sounds |-> <<sound, <<95>>>>],
     sprite |-> [costumes |-> <<<<102, 111, 111>>, <<102, 111, 111, 50>>>>],
     stage |-> [backdrops |-> <<<<103>>, <<103, 50>>>>]] }

InitAdding ==
  /\ \E s \in DistinctScopes : project = s.project /\ sprite = s.sprite /\ stage = s.stage
  /\ pc = "idle" /\ call = NoCall /\ isValid = None /\ base = <<>>
  /\ i = 0 /\ calls = 0 /\ ret = None /\ first = None

NextAdding ==
  \/ /\ pc = "idle"
     /\ \/ \E n \in AddedNames : CallGetSpriteName(n, TRUE)
        \/ \E n \in AddedNames : CallGetCostumeName(n, TRUE)
        \/ \E n \in AddedNames : CallGetSoundName(n, TRUE)
        \/ \E n \in AddedNames : CallGetBackdropName(n, TRUE)
        \/ \E fn \in Ensurers, n \in AddedNames : CallEnsureValidName(fn, n, TRUE)
  \/ AddAsset
  \/ Return

SpecAdding == InitAdding /\ [][NextAdding]_vars

PairwiseDistinct(names) ==
  \A j, k \in 1..Len(names) : j # k => names[j] # names[k]

AllDistinct ==
  /\ PairwiseDistinct(project.sprites \o project.sounds)
  /\ PairwiseDistinct(sprite.costumes)
  /\ PairwiseDistinct(stage.backdrops)

\* the step adds one name, which passes the grammar validator
AddsValidName(old, new) ==
  new # old =>
    /\ Len(new) = Len(old) + 1 /\ SubSeq(new, 1, Len(old)) = old
    /\ FirstViolatedRule(new[Len(new)], "sprite", FALSE) = "none"

\* C10: from a scope whose names are pairwise distinct (sprites and sounds
\* together, costumes, backdrops), adding assets under the names the
\* generators return keeps them pairwise distinct; every name added passes
\* validateAssetName; a generator call itself leaves the scope unchanged
C10_UniquenessPreserved ==
  /\ []AllDistinct
  /\ [][/\ AddsValidName(project.sprites, project'.sprites)
        /\ AddsValidName(project.sounds, project'.sounds)
        /\ AddsValidName(sprite.costumes, sprite'.costumes)
        /\ AddsValidName(stage.backdrops, stage'.backdrops)
        /\ pc = "idle" => UNCHANGED scopeVars]_vars

\* a sprite was added as "G2" because a sound is named "G"
C10_Witness ==
  /\ Len(project.sprites) = 3 /\ project.sprites[3] = <<71, 50>>
  /\ <<71>> \in Range(project.sounds)

====
